---- MODULE Spec2Model ----
(***************************************************************************)
(* Model of src/app/admin-dashboard/page.tsx: the access gate              *)
(* (AdminDashboard), the taxonomy seeding effect, the product form with    *)
(* its slug and hydration effects, the image uploader, the sales tally    *)
(* and the order status updater (DashboardContent).                        *)
(*                                                                         *)
(* Strings whose characters the code inspects (names, slugs) are sequences *)
(* of one-character strings; opaque strings (URLs, ids, e-mail addresses)  *)
(* are TLA+ strings.  A nullable value is Null or Some(v).                 *)
(***************************************************************************)
EXTENDS Integers, Sequences, FiniteSets, TLC

VARIABLES
    \* AdminDashboard
    isUserLoading, user, ADMIN_EMAIL, email, isLoggingIn, loginError, view,
    \* DashboardContent: live collections and the stores behind them
    categories, styles, isLoadingCategories, isLoadingStyles,
    categoriesStore, stylesStore, categoriesQueue, stylesQueue, manualAdd,
    orders, salesCount, statusQueue,
    \* DashboardContent: product dialog, form and uploader
    isDialogOpen, editingProduct, form, defaultValues, slugEdited,
    uploading, uploadedUrl, uploadTasks,
    \* the edit target when handleImageUpload was last called, and whether
    \* form.reset has run since
    uploadTarget, resetSinceUpload,
    \* pure-function harness: the name fed to the slug pipeline and its result
    nameValue, generatedSlug,
    \* the backend writes issued by the last step, the field errors its
    \* validation reported, and the handler that ran
    issued, errors, lastOp

gateVars == <<isUserLoading, user, ADMIN_EMAIL, email, isLoggingIn, loginError, view>>
seedVars == <<categories, styles, isLoadingCategories, isLoadingStyles,
              categoriesStore, stylesStore, categoriesQueue, stylesQueue, manualAdd>>
orderVars == <<orders, salesCount, statusQueue>>
formVars == <<isDialogOpen, editingProduct, form, defaultValues, slugEdited>>
uploadVars == <<uploading, uploadedUrl, uploadTasks>>
slugVars == <<nameValue, generatedSlug>>
vars == <<gateVars, seedVars, orderVars, formVars, uploadVars, resetSinceUpload, uploadTarget,
          slugVars,
          issued, errors, lastOp>>

\* what a step of one component leaves alone
exceptGate == <<seedVars, orderVars, formVars, uploadVars, resetSinceUpload, uploadTarget,
                slugVars>>
exceptSeed == <<gateVars, orderVars, formVars, uploadVars, resetSinceUpload, uploadTarget,
                slugVars>>
exceptOrders == <<gateVars, seedVars, formVars, uploadVars, resetSinceUpload, uploadTarget,
                slugVars>>
exceptDialog == <<gateVars, seedVars, orderVars, slugVars>>
exceptSlug == <<gateVars, seedVars, orderVars, formVars, uploadVars, resetSinceUpload,
                uploadTarget>>

Null == [some |-> FALSE]
Some(v) == [some |-> TRUE, val |-> v]

(***************************************************************************)
(* Bounds                                                                  *)
(***************************************************************************)
MaxNameLen == 3
MaxOrders == 2
MaxLines == 2

(***************************************************************************)
(* Characters and the string methods the code uses                         *)
(***************************************************************************)
UpperCase == <<"A","B","C","D","E","F","G","H","I","J","K","L","M",
               "N","O","P","Q","R","S","T","U","V","W","X","Y","Z">>
LowerCase == <<"a","b","c","d","e","f","g","h","i","j","k","l","m",
               "n","o","p","q","r","s","t","u","v","w","x","y","z">>
Digits == {"0","1","2","3","4","5","6","7","8","9"}
Whitespace == {" ", "\t", "\n"}

Range(s) == {s[i] : i \in 1..Len(s)}

\* String.prototype.toLowerCase, one character
LowerOf == [c \in Range(UpperCase) |-> LowerCase[CHOOSE i \in 1..26 : UpperCase[i] = c]]

toLowerCaseChar(c) == IF c \in DOMAIN LowerOf THEN LowerOf[c] ELSE c

\* String.prototype.toLowerCase
toLowerCase(s) == [i \in 1..Len(s) |-> toLowerCaseChar(s[i])]

RECURSIVE trimStart(_)
trimStart(s) ==
    IF s # <<>> /\ Head(s) \in Whitespace THEN trimStart(Tail(s)) ELSE s

RECURSIVE trimEnd(_)
trimEnd(s) ==
    IF s # <<>> /\ s[Len(s)] \in Whitespace
    THEN trimEnd(SubSeq(s, 1, Len(s) - 1))
    ELSE s

\* String.prototype.trim
trim(s) == trimEnd(trimStart(s))

\* .replace(/&/g, 'and')
RECURSIVE replaceAmpersand(_)
replaceAmpersand(s) ==
    IF s = <<>> THEN <<>>
    ELSE (IF Head(s) = "&" THEN <<"a","n","d">> ELSE <<Head(s)>>)
         \o replaceAmpersand(Tail(s))

\* .replace(/[^a-z0-9\s-]/g, '')
removeDisallowedKeepsApostrophe(s) ==
    SelectSeq(s, LAMBDA c : c \in Range(LowerCase) \cup Digits \cup Whitespace \cup {"-", "'"})

removeDisallowed(s) ==
    SelectSeq(s, LAMBDA c : c \in Range(LowerCase) \cup Digits \cup Whitespace \cup {"-"})

\* .replace(/\s+/g, '-')
RECURSIVE replaceWhitespaceRuns(_)
replaceWhitespaceRuns(s) ==
    IF s = <<>> THEN <<>>
    ELSE IF Head(s) \in Whitespace
         THEN <<"-">> \o replaceWhitespaceRuns(trimStart(Tail(s)))
         ELSE <<Head(s)>> \o replaceWhitespaceRuns(Tail(s))

\* .replace(/-+/g, '-')
RECURSIVE collapseHyphens(_)
collapseHyphens(s) ==
    IF s = <<>> THEN <<>>
    ELSE IF Head(s) = "-" /\ Len(s) > 1 /\ s[2] = "-"
         THEN collapseHyphens(Tail(s))
         ELSE <<Head(s)>> \o collapseHyphens(Tail(s))

\* the expression bound to generatedSlug in the slug effect
GeneratedSlug(name) ==
    collapseHyphens(replaceWhitespaceRuns(removeDisallowed(
        replaceAmpersand(trim(toLowerCase(name))))))

(***************************************************************************)
(* AdminDashboard: the access gate                                         *)
(***************************************************************************)
Undefined == "undefined"
NullEmail == "null"
AdminAddress == "admin@shop"
Emails == {AdminAddress, "guest@shop", "staff@shop", NullEmail}

\* the return statements of AdminDashboard
RenderWithoutEmailCheck(loading, u, admin) ==
    IF loading THEN "loading"
    ELSE IF u.some THEN "dashboard"
    ELSE "login"

Render(loading, u, admin) ==
    IF loading THEN "loading"
    ELSE IF u.some /\ u.val.email = admin THEN "dashboard"
    ELSE IF u.some /\ u.val.email # admin THEN "denied"
    ELSE "login"

GateInit ==
    /\ isUserLoading = TRUE
    /\ user = Null
    /\ ADMIN_EMAIL \in {AdminAddress, Undefined}
    /\ email = ""
    /\ isLoggingIn = FALSE
    /\ loginError = "none"
    /\ view = Render(TRUE, Null, ADMIN_EMAIL)

\* the gate as it stands while DashboardContent is mounted
GateAuthorized ==
    /\ isUserLoading = FALSE
    /\ user = Some([email |-> AdminAddress])
    /\ ADMIN_EMAIL = AdminAddress
    /\ email = AdminAddress
    /\ isLoggingIn = FALSE
    /\ loginError = "none"
    /\ view = Render(FALSE, user, ADMIN_EMAIL)

\* useUser: the shared identity state resolves or is changed by the provider
AuthStateChanged(u) ==
    /\ isUserLoading \/ u # user
    /\ isUserLoading' = FALSE
    /\ user' = u
    /\ view' = Render(FALSE, u, ADMIN_EMAIL)
    /\ lastOp' = "AuthStateChanged"
    /\ issued' = <<>>
    /\ errors' = {}
    /\ UNCHANGED <<ADMIN_EMAIL, email, isLoggingIn, loginError, exceptGate>>

\* the login form is part of the last return statement only
LoginFormShownWhenDenied == view \in {"login", "denied"}

LoginFormShown == view = "login"

\* onChange of the e-mail input of the login form
setEmail(e) ==
    /\ LoginFormShown
    /\ ~isLoggingIn
    /\ email' = e
    /\ lastOp' = "setEmail"
    /\ issued' = <<>>
    /\ errors' = {}
    /\ UNCHANGED <<isUserLoading, user, ADMIN_EMAIL, isLoggingIn, loginError, view, exceptGate>>

\* handleLogin up to the await
handleLogin ==
    /\ LoginFormShown
    /\ ~isLoggingIn
    /\ email # ""
    /\ IF ADMIN_EMAIL = Undefined
       THEN /\ loginError' = "not-configured"
            /\ UNCHANGED isLoggingIn
       ELSE /\ isLoggingIn' = TRUE
            /\ loginError' = "none"
    /\ lastOp' = "handleLogin"
    /\ issued' = <<>>
    /\ errors' = {}
    /\ UNCHANGED <<isUserLoading, user, ADMIN_EMAIL, email, view, exceptGate>>

\* handleLogin: signInWithEmailAndPassword resolves, then the finally block
signInResolved ==
    /\ isLoggingIn
    /\ user' = Some([email |-> email])
    /\ isUserLoading' = FALSE
    /\ isLoggingIn' = FALSE
    /\ view' = Render(FALSE, user', ADMIN_EMAIL)
    /\ lastOp' = "signInResolved"
    /\ issued' = <<>>
    /\ errors' = {}
    /\ UNCHANGED <<ADMIN_EMAIL, email, loginError, exceptGate>>

\* handleLogin: the catch block, then the finally block
signInRejected(code) ==
    /\ isLoggingIn
    /\ loginError' = code
    /\ isLoggingIn' = FALSE
    /\ lastOp' = "signInRejected"
    /\ issued' = <<>>
    /\ errors' = {}
    /\ UNCHANGED <<isUserLoading, user, ADMIN_EMAIL, email, view, exceptGate>>

Users == {Null} \cup {Some([email |-> e]) : e \in Emails}

\* the Firebase provider hands out the Firestore instance whenever the
\* dashboard is mounted
firestore == TRUE

(***************************************************************************)
(* DashboardContent: salesCount                                            *)
(***************************************************************************)
ProductIds == {"a", "b"}

\* the body of the inner forEach: counts[product.id] = (counts[product.id] || 0) + product.quantity
CountLineOverwrites(counts, product) ==
    [k \in DOMAIN counts \cup {product.id} |->
        IF k = product.id THEN product.quantity ELSE counts[k]]

CountLine(counts, product) ==
    [k \in DOMAIN counts \cup {product.id} |->
        IF k = product.id
        THEN (IF k \in DOMAIN counts THEN counts[k] ELSE 0) + product.quantity
        ELSE counts[k]]

\* order.products.forEach
RECURSIVE CountLines(_, _)
CountLines(counts, products) ==
    IF products = <<>> THEN counts
    ELSE CountLines(CountLine(counts, Head(products)), Tail(products))

\* orders.forEach
RECURSIVE CountOrders(_, _)
CountOrders(counts, os) ==
    IF os = <<>> THEN counts
    ELSE CountOrders(CountLines(counts, Head(os).products), Tail(os))

EmptyCounts == [k \in {} |-> 0]

\* the useMemo that computes salesCount
SalesCount(o) ==
    IF ~o.some THEN EmptyCounts ELSE CountOrders(EmptyCounts, o.val)

\* the Sales footer: salesCount[product.id] || 0
SalesShown(counts, id) == IF id \in DOMAIN counts THEN counts[id] ELSE 0

SeqsUpTo(S, n) == UNION {[1..k -> S] : k \in 0..n}
OrderLines ==
    { [id |-> "a", quantity |-> 1], [id |-> "a", quantity |-> 2],
      [id |-> "b", quantity |-> 5], [id |-> "b", quantity |-> 0] }
Orders == {[products |-> ps] : ps \in SeqsUpTo(OrderLines, MaxLines)}

OrdersInit ==
    /\ orders = Null
    /\ salesCount = SalesCount(Null)
    /\ statusQueue = <<>>

\* useCollection(ordersQuery): the first snapshot arrives
OrdersLoaded(os) ==
    /\ view = "dashboard"
    /\ ~orders.some
    /\ orders' = Some(os)
    /\ salesCount' = SalesCount(orders')
    /\ lastOp' = "OrdersLoaded"
    /\ issued' = <<>>
    /\ errors' = {}
    /\ UNCHANGED <<statusQueue, exceptOrders>>

\* useCollection(ordersQuery): the checkout flow created an order; the query
\* orders by createdAt descending, so it arrives at the front
OrderPlaced(o) ==
    /\ view = "dashboard"
    /\ orders.some
    /\ Len(orders.val) < MaxOrders
    /\ orders' = Some(<<o>> \o orders.val)
    /\ salesCount' = SalesCount(orders')
    /\ lastOp' = "OrderPlaced"
    /\ issued' = <<>>
    /\ errors' = {}
    /\ UNCHANGED <<statusQueue, exceptOrders>>

(***************************************************************************)
(* DashboardContent: the order status updater                              *)
(* statusQueue holds the status writes the store has not reported yet.     *)
(***************************************************************************)
MaxStatusWrites == 1

\* the SelectItem values of the status Select
OrderStatuses == {"pending", "shipped", "delivered", "cancelled"}

\* onValueChange hands over a string, cast to Order['status'] without a check
StatusValues == OrderStatuses \cup {"refunded"}

OrderIds == {"o1", "o2"}

\* the order rows of the table: id, status and the lines the tally reads
OrderRow(id, status) ==
    [id |-> id, status |-> status, products |-> <<[id |-> "a", quantity |-> 1]>>]

OrderTables ==
    {<<>>}
        \cup {<<OrderRow("o1", s)>> : s \in OrderStatuses}
        \cup {<<OrderRow("o2", s), OrderRow("o1", t)>> : s, t \in OrderStatuses}

\* updateDocumentNonBlocking(doc(firestore, 'orders', orderId), { status })
StatusWriteReplacesOrder(orderId, status) ==
    [op |-> "set", coll |-> "orders", id |-> orderId,
     data |-> [status |-> status, products |-> <<>>]]

StatusWrite(orderId, status) ==
    [op |-> "update", coll |-> "orders", id |-> orderId, data |-> [status |-> status]]

\* the ids of the rows the orders table renders
RenderedOrderIds == IF orders.some THEN {orders.val[i].id : i \in DOMAIN orders.val} ELSE {}

handleUpdateOrderStatus(orderId, status) ==
    /\ view = "dashboard"
    /\ orderId \in RenderedOrderIds
    /\ Len(statusQueue) < MaxStatusWrites
    /\ firestore
    /\ issued' = <<StatusWrite(orderId, status)>>
    /\ errors' = {}
    /\ statusQueue' = Append(statusQueue, StatusWrite(orderId, status))
    /\ lastOp' = "handleUpdateOrderStatus"
    /\ UNCHANGED <<orders, salesCount, exceptOrders>>

\* the store merges the fields of an update into the document it names
ApplyWrite(os, w) ==
    [i \in DOMAIN os |->
        IF os[i].id = w.id
        THEN [f \in DOMAIN os[i] \cup DOMAIN w.data |->
                IF f \in DOMAIN w.data THEN w.data[f] ELSE os[i][f]]
        ELSE os[i]]

\* useCollection(ordersQuery): the snapshot that reflects a status write
OrderStatusApplied ==
    /\ view = "dashboard"
    /\ orders.some
    /\ statusQueue # <<>>
    /\ orders' = Some(ApplyWrite(orders.val, Head(statusQueue)))
    /\ salesCount' = SalesCount(orders')
    /\ statusQueue' = Tail(statusQueue)
    /\ lastOp' = "OrderStatusApplied"
    /\ issued' = <<>>
    /\ errors' = {}
    /\ UNCHANGED exceptOrders

(***************************************************************************)
(* The slug pipeline applied to arbitrary names                            *)
(***************************************************************************)
NameAlphabet == {"M", "e", "1", " ", "\t", "&", "-", "!"}
ExampleName == <<"M","e","n"," ","&"," ","W","o","m","e","n","'","s"," ","B","a","g","s","!">>
ExampleSlug == <<"m","e","n","-","a","n","d","-","w","o","m","e","n","s","-","b","a","g","s">>

SlugInit ==
    /\ nameValue \in SeqsUpTo(NameAlphabet, MaxNameLen) \cup {ExampleName}
    /\ generatedSlug = <<>>

DeriveSlug ==
    /\ lastOp = "init"
    /\ generatedSlug' = GeneratedSlug(nameValue)
    /\ lastOp' = "DeriveSlug"
    /\ UNCHANGED <<nameValue, issued, errors, exceptSlug>>

(***************************************************************************)
(* DashboardContent: the seeding effect                                    *)
(***************************************************************************)
MaxCategoryDocs == 5
MaxStyleDocs == 9
MaxManualAdds == 1

Women == <<"W","o","m","e","n">>
Men == <<"M","e","n">>
Unisex == <<"U","n","i","s","e","x">>
Bags == <<"B","a","g","s">>
defaultCategories == <<Women, Men, Unisex, Bags>>

Casual == <<"C","a","s","u","a","l">>
Streetwear == <<"S","t","r","e","e","t","w","e","a","r">>
Formal == <<"F","o","r","m","a","l">>
Vintage == <<"V","i","n","t","a","g","e">>
Minimal == <<"M","i","n","i","m","a","l">>
Small == <<"S","m","a","l","l">>
Big == <<"B","i","g">>
Luggage == <<"L","u","g","g","a","g","e">>
defaultStyles == <<Casual, Streetwear, Formal, Vintage, Minimal, Small, Big, Luggage>>

\* addDocumentNonBlocking(collection(firestore, coll), { name })
AddName(coll, name) == [op |-> "add", coll |-> coll, id |-> "", data |-> [name |-> name]]

RECURSIVE AddNames(_, _)
AddNames(coll, names) ==
    IF names = <<>> THEN <<>>
    ELSE <<AddName(coll, Head(names))>> \o AddNames(coll, Tail(names))

\* existingCategoryNames / existingStyleNames
ExistingNamesCaseSensitive(docs) == Range(docs)

ExistingNames(docs) == {toLowerCase(n) : n \in Range(docs)}

\* one `if (categories) { ... }` block of the seeding effect
SeedCollection(coll, defaults, snapshot) ==
    IF ~snapshot.some THEN <<>>
    ELSE LET existingNames == ExistingNames(snapshot.val)
         IN AddNames(coll, SelectSeq(defaults,
                LAMBDA name : toLowerCase(name) \notin existingNames))

\* the seeding effect: the writes one run issues
SeedEffect(cats, stys, loadingCats, loadingStys) ==
    IF ~firestore \/ loadingCats \/ loadingStys THEN <<>>
    ELSE SeedCollection("categories", defaultCategories, cats)
         \o SeedCollection("styles", defaultStyles, stys)

\* the names a sequence of writes adds to one collection
RECURSIVE NamesAddedTo(_, _)
NamesAddedTo(coll, writes) ==
    IF writes = <<>> THEN <<>>
    ELSE (IF Head(writes).op = "add" /\ Head(writes).coll = coll
          THEN <<Head(writes).data.name>> ELSE <<>>)
         \o NamesAddedTo(coll, Tail(writes))

Kids == <<"K","i","d","s">>
InitCategoryStores ==
    { <<>>,
      defaultCategories,
      <<toLowerCase(Women), <<"M","E","N">>, Unisex, toLowerCase(Bags)>>,
      <<toLowerCase(Women), Kids>> }
InitStyleStores ==
    { defaultStyles,
      <<toLowerCase(Casual), Streetwear, Formal, Vintage, Minimal,
        <<"S","M","A","L","L">>, Big, Luggage>>,
      <<Casual, Streetwear, Formal, Vintage, Minimal, Small>> }

SeedInit ==
    /\ categories = Null
    /\ styles = Null
    /\ isLoadingCategories = TRUE
    /\ isLoadingStyles = TRUE
    /\ categoriesStore \in InitCategoryStores
    /\ stylesStore \in InitStyleStores
    /\ categoriesQueue = <<>>
    /\ stylesQueue = <<>>
    /\ manualAdd = 0

\* a render with changed snapshots or loading flags: the seeding effect runs
\* and its non-blocking inserts join the queues
RunSeedEffect(catQueue, styQueue) ==
    LET writes == SeedEffect(categories', styles', isLoadingCategories', isLoadingStyles')
    IN /\ issued' = writes
       /\ errors' = {}
       /\ categoriesQueue' = catQueue \o NamesAddedTo("categories", writes)
       /\ stylesQueue' = styQueue \o NamesAddedTo("styles", writes)

\* useCollection(categoriesQuery): the first snapshot arrives
CategoriesLoaded ==
    /\ view = "dashboard"
    /\ isLoadingCategories
    /\ categories' = Some(categoriesStore)
    /\ isLoadingCategories' = FALSE
    /\ UNCHANGED <<styles, isLoadingStyles, categoriesStore, stylesStore, manualAdd>>
    /\ RunSeedEffect(categoriesQueue, stylesQueue)
    /\ lastOp' = "CategoriesLoaded"
    /\ UNCHANGED exceptSeed

\* useCollection(stylesQuery): the first snapshot arrives
StylesLoaded ==
    /\ view = "dashboard"
    /\ isLoadingStyles
    /\ styles' = Some(stylesStore)
    /\ isLoadingStyles' = FALSE
    /\ UNCHANGED <<categories, isLoadingCategories, categoriesStore, stylesStore, manualAdd>>
    /\ RunSeedEffect(categoriesQueue, stylesQueue)
    /\ lastOp' = "StylesLoaded"
    /\ UNCHANGED exceptSeed

\* one queued insert into categories is applied and reported in a new snapshot
CategoryInsertApplied ==
    /\ view = "dashboard"
    /\ ~isLoadingCategories
    /\ categoriesQueue # <<>>
    /\ Len(categoriesStore) < MaxCategoryDocs
    /\ categoriesStore' = Append(categoriesStore, Head(categoriesQueue))
    /\ categories' = Some(categoriesStore')
    /\ UNCHANGED <<styles, isLoadingCategories, isLoadingStyles, stylesStore, manualAdd>>
    /\ RunSeedEffect(Tail(categoriesQueue), stylesQueue)
    /\ lastOp' = "CategoryInsertApplied"
    /\ UNCHANGED exceptSeed

\* one queued insert into styles is applied and reported in a new snapshot
StyleInsertApplied ==
    /\ view = "dashboard"
    /\ ~isLoadingStyles
    /\ stylesQueue # <<>>
    /\ Len(stylesStore) < MaxStyleDocs
    /\ stylesStore' = Append(stylesStore, Head(stylesQueue))
    /\ styles' = Some(stylesStore')
    /\ UNCHANGED <<categories, isLoadingCategories, isLoadingStyles, categoriesStore, manualAdd>>
    /\ RunSeedEffect(categoriesQueue, Tail(stylesQueue))
    /\ lastOp' = "StyleInsertApplied"
    /\ UNCHANGED exceptSeed

ManualNames == {<<" ","K","i","d","s">>, <<"m","e","n">>}

handleAddCategory(newCategoryName) ==
    /\ view = "dashboard"
    /\ manualAdd < MaxManualAdds
    /\ firestore /\ trim(newCategoryName) # <<>>
    /\ issued' = <<AddName("categories", trim(newCategoryName))>>
    /\ errors' = {}
    /\ categoriesQueue' = Append(categoriesQueue, trim(newCategoryName))
    /\ manualAdd' = manualAdd + 1
    /\ lastOp' = "handleAddCategory"
    /\ UNCHANGED <<categories, styles, isLoadingCategories, isLoadingStyles,
                   categoriesStore, stylesStore, stylesQueue>>
    /\ UNCHANGED exceptSeed

handleAddStyle(newStyleName) ==
    /\ view = "dashboard"
    /\ manualAdd < MaxManualAdds
    /\ firestore /\ trim(newStyleName) # <<>>
    /\ issued' = <<AddName("styles", trim(newStyleName))>>
    /\ errors' = {}
    /\ stylesQueue' = Append(stylesQueue, trim(newStyleName))
    /\ manualAdd' = manualAdd + 1
    /\ lastOp' = "handleAddStyle"
    /\ UNCHANGED <<categories, styles, isLoadingCategories, isLoadingStyles,
                   categoriesStore, stylesStore, categoriesQueue>>
    /\ UNCHANGED exceptSeed

(***************************************************************************)
(* DashboardContent: the product dialog, its form and its effects          *)
(* The form carries the fields the schema constrains and the handlers      *)
(* read: name, slug, description, category, price, imageUrl1..imageUrl4.   *)
(***************************************************************************)
imageFields == <<"imageUrl1", "imageUrl2", "imageUrl3", "imageUrl4">>

TypedUrl == "https://cdn/typed"
DownloadUrl == "https://storage/upload"
StoredUrls == <<"https://cdn/1", "https://cdn/2", "https://cdn/3", "https://cdn/4">>
WellFormedUrls == {TypedUrl, DownloadUrl} \cup Range(StoredUrls)

\* the products snapshot the cards are rendered from
Tee == [id |-> "p1", name |-> <<"T">>, slug |-> <<"t","-","2">>,
        description |-> "text", category |-> "Bags", price |-> 5,
        images |-> <<[url |-> StoredUrls[1], alt |-> <<"T">>, hint |-> "product image"]>>]
Tote == [id |-> "p2", name |-> <<"B"," ","&">>, slug |-> <<"b","-","a","n","d">>,
         description |-> "text", category |-> "Bags", price |-> 5,
         images |-> [i \in 1..4 |->
                       [url |-> StoredUrls[i], alt |-> <<"B"," ","&">>, hint |-> "product image"]]]
products == {Tee, Tote}

\* defaultValues of useForm
InitialValues ==
    [name |-> <<>>, slug |-> <<>>, description |-> "", category |-> "", price |-> 0,
     imageUrl1 |-> "", imageUrl2 |-> "", imageUrl3 |-> "", imageUrl4 |-> ""]

\* editingProduct.images?.[i]?.url || ''
ImageUrlAt(p, i) == IF i <= Len(p.images) THEN p.images[i].url ELSE ""

\* the argument of form.reset in the hydration effect
HydratedValues(p) ==
    [name |-> p.name, slug |-> p.slug, description |-> p.description,
     category |-> p.category, price |-> p.price,
     imageUrl1 |-> ImageUrlAt(p, 1), imageUrl2 |-> ImageUrlAt(p, 2),
     imageUrl3 |-> ImageUrlAt(p, 3), imageUrl4 |-> ImageUrlAt(p, 4)]

\* the slug effect
SlugEffectIgnoresEditTarget(values, editing) ==
    IF values.name # <<>>
    THEN [values EXCEPT !.slug = GeneratedSlug(values.name)]
    ELSE values

SlugEffect(values, editing) ==
    IF ~editing.some /\ values.name # <<>>
    THEN [values EXCEPT !.slug = GeneratedSlug(values.name)]
    ELSE values

\* the hydration effect: form.reset(values) also makes values the form's
\* default values, form.reset() restores the current default values
HydrationEffect(defaults, editing) ==
    IF editing.some
    THEN [values |-> HydratedValues(editing.val), defaults |-> HydratedValues(editing.val)]
    ELSE [values |-> defaults, defaults |-> defaults]

\* The render after a handler and the effects it runs, in the order they are
\* declared: the slug effect when the watched name or the edit target
\* changed, the hydration effect when the edit target changed, and the slug
\* effect once more when the reset changed the watched name.
Commit(prevName, prevEditing, values, defaults, editing, edited) ==
    LET slugRuns == values.name # prevName \/ editing # prevEditing
        v1 == IF slugRuns THEN SlugEffect(values, editing) ELSE values
        resetRuns == editing # prevEditing
        r == IF resetRuns THEN HydrationEffect(defaults, editing)
             ELSE [values |-> v1, defaults |-> defaults]
        slugRunsAgain == r.values.name # values.name
        v2 == IF slugRunsAgain THEN SlugEffect(r.values, editing) ELSE r.values
    IN [values |-> v2, defaults |-> r.defaults,
        edited |-> edited /\ ~resetRuns /\ v2.slug = values.slug]

\* productSchema
\* zodResolver(productSchema): the fields whose rule fails
FieldErrorsAllowNegativePrice(data) ==
    {f \in {"name", "slug"} : data[f] = <<>>}
        \cup {f \in {"description", "category"} : data[f] = ""}
        \cup {imageFields[i] : i \in {j \in 1..4 : data[imageFields[j]] \notin WellFormedUrls \cup {""}}}

FieldErrors(data) ==
    {f \in {"name", "slug"} : data[f] = <<>>}
        \cup {f \in {"description", "category"} : data[f] = ""}
        \cup (IF data.price < 0 THEN {"price"} ELSE {})
        \cup {imageFields[i] : i \in {j \in 1..4 : data[imageFields[j]] \notin WellFormedUrls \cup {""}}}

Valid(data) == FieldErrors(data) = {}

\* onSubmit: the images array
RECURSIVE ImagesFrom(_, _)
ImagesFrom(urls, alt) ==
    IF urls = <<>> THEN <<>>
    ELSE (IF Head(urls) # ""
          THEN <<[url |-> Head(urls), alt |-> alt, hint |-> "product image"]>>
          ELSE <<>>)
         \o ImagesFrom(Tail(urls), alt)

ImagesKeepEmpty(data) ==
    [i \in 1..4 |-> [url |-> data[imageFields[i]], alt |-> data.name, hint |-> "product image"]]

Images(data) ==
    ImagesFrom([i \in 1..4 |-> data[imageFields[i]]], data.name)

\* onSubmit: productData
ProductData(data) ==
    [name |-> data.name, slug |-> data.slug, description |-> data.description,
     category |-> data.category, price |-> data.price,
     imageUrl1 |-> data.imageUrl1, imageUrl2 |-> data.imageUrl2,
     imageUrl3 |-> data.imageUrl3, imageUrl4 |-> data.imageUrl4,
     images |-> Images(data), updatedAt |-> "serverTimestamp"]

\* onSubmit: the write it issues
SubmitWriteAlwaysAdds(data, editing) ==
    [op |-> "add", coll |-> "products", id |-> "",
     data |-> ProductData(data) @@ [createdAt |-> "serverTimestamp"]]

SubmitWrite(data, editing) ==
    IF editing.some
    THEN [op |-> "update", coll |-> "products", id |-> editing.val.id,
          data |-> ProductData(data)]
    ELSE [op |-> "add", coll |-> "products", id |-> "",
          data |-> ProductData(data) @@ [createdAt |-> "serverTimestamp"]]

DialogInit ==
    /\ isDialogOpen = FALSE
    /\ editingProduct = Null
    /\ form = InitialValues
    /\ defaultValues = InitialValues
    /\ slugEdited = FALSE

UploadInit ==
    /\ uploading = FALSE
    /\ uploadedUrl = Null
    /\ uploadTasks = <<>>
    /\ uploadTarget = Null
    /\ resetSinceUpload = FALSE

\* the hydration effect runs, and calls form.reset, when the edit target changed
ResetRuns(editing) == editing # editingProduct

\* a handler changed the edit target or the form: render and run the effects
Rendered(values, editing) ==
    LET c == Commit(form.name, editingProduct, values, defaultValues, editing, slugEdited)
    IN /\ form' = c.values
       /\ defaultValues' = c.defaults
       /\ slugEdited' = c.edited
       /\ editingProduct' = editing

openNewDialog ==
    /\ view = "dashboard"
    /\ ~isDialogOpen
    /\ Rendered(defaultValues, Null)
    /\ isDialogOpen' = TRUE
    /\ resetSinceUpload' = TRUE
    /\ lastOp' = "openNewDialog"
    /\ issued' = <<>>
    /\ errors' = {}
    /\ UNCHANGED <<uploadVars, uploadTarget, exceptDialog>>

openEditDialog(product) ==
    /\ view = "dashboard"
    /\ ~isDialogOpen
    /\ Rendered(form, Some(product))
    /\ isDialogOpen' = TRUE
    /\ resetSinceUpload' = (resetSinceUpload \/ ResetRuns(Some(product)))
    /\ lastOp' = "openEditDialog"
    /\ issued' = <<>>
    /\ errors' = {}
    /\ UNCHANGED <<uploadVars, uploadTarget, exceptDialog>>

\* onOpenChange(false) of the product dialog
closeDialog ==
    /\ view = "dashboard"
    /\ isDialogOpen
    /\ isDialogOpen' = FALSE
    /\ lastOp' = "closeDialog"
    /\ issued' = <<>>
    /\ errors' = {}
    /\ UNCHANGED <<editingProduct, form, defaultValues, slugEdited, uploadVars,
                   resetSinceUpload, uploadTarget, exceptDialog>>

\* the name input
changeName(name) ==
    /\ view = "dashboard"
    /\ isDialogOpen
    /\ name # form.name
    /\ Rendered([form EXCEPT !.name = name], editingProduct)
    /\ lastOp' = "changeName"
    /\ issued' = <<>>
    /\ errors' = {}
    /\ UNCHANGED <<isDialogOpen, uploadVars, resetSinceUpload, uploadTarget, exceptDialog>>

\* the slug input
changeSlug(slug) ==
    /\ view = "dashboard"
    /\ isDialogOpen
    /\ slug # form.slug
    /\ form' = [form EXCEPT !.slug = slug]
    /\ slugEdited' = TRUE
    /\ lastOp' = "changeSlug"
    /\ issued' = <<>>
    /\ errors' = {}
    /\ UNCHANGED <<isDialogOpen, editingProduct, defaultValues, uploadVars,
                   resetSinceUpload, uploadTarget, exceptDialog>>

\* the description, category, price and image URL inputs
changeField(field, value) ==
    /\ view = "dashboard"
    /\ isDialogOpen
    /\ value # form[field]
    /\ form' = [form EXCEPT ![field] = value]
    /\ lastOp' = "changeField"
    /\ issued' = <<>>
    /\ errors' = {}
    /\ UNCHANGED <<isDialogOpen, editingProduct, defaultValues, slugEdited,
                   uploadVars, resetSinceUpload, uploadTarget, exceptDialog>>

\* form.handleSubmit(onSubmit)
handleSubmit ==
    /\ view = "dashboard"
    /\ isDialogOpen
    /\ IF Valid(form) /\ firestore
       THEN /\ issued' = <<SubmitWrite(form, editingProduct)>>
            /\ isDialogOpen' = FALSE
            /\ Rendered(form, Null)
            /\ resetSinceUpload' = (resetSinceUpload \/ ResetRuns(Null))
            /\ lastOp' = "onSubmit"
       ELSE /\ issued' = <<>>
            /\ lastOp' = "submitRejected"
            /\ UNCHANGED <<isDialogOpen, editingProduct, form, defaultValues, slugEdited,
                           resetSinceUpload>>
    /\ errors' = FieldErrors(form)
    /\ UNCHANGED <<uploadVars, uploadTarget, exceptDialog>>

NoData == [f \in {} |-> ""]

\* handleDelete; confirmed is the answer to window.confirm
handleDelete(productId, confirmed) ==
    /\ view = "dashboard"
    /\ ~isDialogOpen
    /\ firestore
    /\ issued' = IF confirmed
                 THEN <<[op |-> "delete", coll |-> "products", id |-> productId, data |-> NoData]>>
                 ELSE <<>>
    /\ errors' = {}
    /\ lastOp' = "handleDelete"
    /\ UNCHANGED <<formVars, uploadVars, resetSinceUpload, uploadTarget, exceptDialog>>

(***************************************************************************)
(* DashboardContent: the image uploader                                    *)
(* uploadTasks holds the phase of every upload task whose callbacks may    *)
(* still run: "transferring" until the task errors or completes,           *)
(* "resolving" while getDownloadURL is pending.                            *)
(***************************************************************************)
MaxUploadTasks == 2

firebaseApp == TRUE

\* disabled={uploading} on the file input
FileInputNeverDisabled == FALSE

FileInputDisabled == uploading

Remove(s, i) == SubSeq(s, 1, i - 1) \o SubSeq(s, i + 1, Len(s))

\* imageFields.find(field => !form.getValues(field)); 0 when there is none
FirstEmptyFieldFromTheEnd(values) ==
    IF \E i \in 1..4 : values[imageFields[i]] = ""
    THEN CHOOSE i \in 1..4 :
            /\ values[imageFields[i]] = ""
            /\ \A j \in (i + 1)..4 : values[imageFields[j]] # ""
    ELSE 0

FirstEmptyField(values) ==
    IF \E i \in 1..4 : values[imageFields[i]] = ""
    THEN CHOOSE i \in 1..4 :
            /\ values[imageFields[i]] = ""
            /\ \A j \in 1..(i - 1) : values[imageFields[j]] # ""
    ELSE 0

\* handleImageUpload with a chosen file
handleImageUpload ==
    /\ view = "dashboard"
    /\ isDialogOpen
    /\ ~FileInputDisabled
    /\ firebaseApp
    /\ Len(uploadTasks) < MaxUploadTasks
    /\ uploadTasks' = Append(uploadTasks, "transferring")
    /\ uploading' = TRUE
    /\ uploadedUrl' = Null
    /\ uploadTarget' = editingProduct
    /\ resetSinceUpload' = FALSE
    /\ lastOp' = "handleImageUpload"
    /\ issued' = <<>>
    /\ errors' = {}
    /\ UNCHANGED <<formVars, exceptDialog>>

\* the error callback of uploadTask.on
uploadErrorKeepsUploading(i) ==
    /\ i \in 1..Len(uploadTasks)
    /\ uploadTasks[i] = "transferring"
    /\ uploadTasks' = Remove(uploadTasks, i)
    /\ lastOp' = "uploadError"
    /\ issued' = <<>>
    /\ errors' = {}
    /\ UNCHANGED <<uploading, uploadedUrl, formVars, resetSinceUpload, uploadTarget, exceptDialog>>

uploadError(i) ==
    /\ i \in 1..Len(uploadTasks)
    /\ uploadTasks[i] = "transferring"
    /\ uploadTasks' = Remove(uploadTasks, i)
    /\ uploading' = FALSE
    /\ lastOp' = "uploadError"
    /\ issued' = <<>>
    /\ errors' = {}
    /\ UNCHANGED <<uploadedUrl, formVars, resetSinceUpload, uploadTarget, exceptDialog>>

\* the completion callback of uploadTask.on: getDownloadURL is called
uploadComplete(i) ==
    /\ i \in 1..Len(uploadTasks)
    /\ uploadTasks[i] = "transferring"
    /\ uploadTasks' = [uploadTasks EXCEPT ![i] = "resolving"]
    /\ lastOp' = "uploadComplete"
    /\ issued' = <<>>
    /\ errors' = {}
    /\ UNCHANGED <<uploading, uploadedUrl, formVars, resetSinceUpload, uploadTarget, exceptDialog>>

\* the then-callback of getDownloadURL
downloadUrlResolved(i) ==
    /\ i \in 1..Len(uploadTasks)
    /\ uploadTasks[i] = "resolving"
    /\ uploadTasks' = Remove(uploadTasks, i)
    /\ uploadedUrl' = Some(DownloadUrl)
    /\ uploading' = FALSE
    /\ LET firstEmptyField == FirstEmptyField(form)
       IN form' = IF firstEmptyField # 0
                  THEN [form EXCEPT ![imageFields[firstEmptyField]] = DownloadUrl]
                  ELSE form
    /\ lastOp' = "downloadUrlResolved"
    /\ issued' = <<>>
    /\ errors' = {}
    /\ UNCHANGED <<isDialogOpen, editingProduct, defaultValues, slugEdited,
                   resetSinceUpload, uploadTarget, exceptDialog>>

\* getDownloadURL rejects: the promise has no rejection handler
downloadUrlRejected(i) ==
    /\ i \in 1..Len(uploadTasks)
    /\ uploadTasks[i] = "resolving"
    /\ uploadTasks' = Remove(uploadTasks, i)
    /\ lastOp' = "downloadUrlRejected"
    /\ issued' = <<>>
    /\ errors' = {}
    /\ UNCHANGED <<uploading, uploadedUrl, formVars, resetSinceUpload, uploadTarget, exceptDialog>>

(***************************************************************************)
(* Specifications                                                          *)
(***************************************************************************)
SeedIdle == SeedInit /\ categoriesStore = defaultCategories /\ stylesStore = defaultStyles
SlugIdle == nameValue = <<>> /\ generatedSlug = <<>>
NoStep == lastOp = "init" /\ issued = <<>> /\ errors = {}

\* the access gate
GateSpecInit ==
    GateInit /\ SeedIdle /\ OrdersInit /\ DialogInit /\ UploadInit /\ SlugIdle /\ NoStep

GateSpecNext ==
    \/ \E u \in Users : AuthStateChanged(u)
    \/ \E e \in Emails \ {NullEmail} : setEmail(e)
    \/ handleLogin
    \/ signInResolved
    \/ \E code \in {"bad-credentials", "other"} : signInRejected(code)

SpecGate == GateSpecInit /\ [][GateSpecNext]_vars

\* the taxonomy collections and the seeding effect
SeedSpecInit ==
    GateAuthorized /\ SeedInit /\ OrdersInit /\ DialogInit /\ UploadInit /\ SlugIdle /\ NoStep

SeedSpecNext ==
    \/ CategoriesLoaded
    \/ StylesLoaded
    \/ CategoryInsertApplied
    \/ StyleInsertApplied
    \/ \E n \in ManualNames : handleAddCategory(n)
    \/ \E n \in ManualNames : handleAddStyle(n)

SpecSeed == SeedSpecInit /\ [][SeedSpecNext]_vars

\* the orders snapshot and the sales tally
OrdersSpecInit ==
    GateAuthorized /\ SeedIdle /\ OrdersInit /\ DialogInit /\ UploadInit /\ SlugIdle /\ NoStep

\* the order lists the first snapshot may hold; none once it has arrived
FirstSnapshots == IF orders.some THEN {} ELSE SeqsUpTo(Orders, MaxOrders)

OrdersSpecNext ==
    \/ \E os \in FirstSnapshots : OrdersLoaded(os)
    \/ \E o \in Orders : OrderPlaced(o)

SpecOrders == OrdersSpecInit /\ [][OrdersSpecNext]_vars

\* the order status updater next to the other handlers that write
StatusSpecNext ==
    \/ \E os \in OrderTables : OrdersLoaded(os)
    \/ \E id \in OrderIds, st \in StatusValues : handleUpdateOrderStatus(id, st)
    \/ OrderStatusApplied
    \/ \E p \in products, confirmed \in BOOLEAN : handleDelete(p.id, confirmed)
    \/ \E p \in products : openEditDialog(p)
    \/ closeDialog
    \/ handleSubmit
    \/ \E n \in ManualNames : handleAddCategory(n)
    \/ \E n \in ManualNames : handleAddStyle(n)

SpecStatus == OrdersSpecInit /\ [][StatusSpecNext]_vars

\* the product dialog and the text fields of its form
NameInputs == {<<>>, <<"T">>, <<"B"," ","&">>}
SlugInputs == {<<>>, <<"t","-","2">>}
DescriptionInputs == {"", "text"}
CategoryInputs == {"", "Bags"}
PriceInputs == {-1, 5}
UrlInputs == {"", TypedUrl}
NotAUrl == "not a url"
RejectedUrlInputs == {"", NotAUrl}

Init ==
    GateAuthorized /\ SeedIdle /\ OrdersInit /\ DialogInit /\ UploadInit /\ SlugIdle /\ NoStep

Next ==
    \/ openNewDialog
    \/ \E p \in products : openEditDialog(p)
    \/ closeDialog
    \/ \E n \in NameInputs : changeName(n)
    \/ \E sl \in SlugInputs : changeSlug(sl)
    \/ \E d \in DescriptionInputs : changeField("description", d)
    \/ \E c \in CategoryInputs : changeField("category", c)
    \/ \E x \in PriceInputs : changeField("price", x)
    \/ handleSubmit

Spec == Init /\ [][Next]_vars

\* the product dialog and every field the schema has a rule for
ValidationSpecNext ==
    \/ openNewDialog
    \/ \E p \in products : openEditDialog(p)
    \/ closeDialog
    \/ \E n \in NameInputs : changeName(n)
    \/ \E sl \in SlugInputs : changeSlug(sl)
    \/ \E d \in DescriptionInputs : changeField("description", d)
    \/ \E c \in CategoryInputs : changeField("category", c)
    \/ \E x \in PriceInputs : changeField("price", x)
    \/ \E i \in 1..4, u \in RejectedUrlInputs : changeField(imageFields[i], u)
    \/ handleSubmit

SpecValidation == Init /\ [][ValidationSpecNext]_vars

\* the product dialog, the image fields of its form and the uploader
UploadSpecNext ==
    \/ openNewDialog
    \/ \E p \in products : openEditDialog(p)
    \/ closeDialog
    \/ \E n \in NameInputs : changeName(n)
    \/ \E d \in DescriptionInputs \ {""} : changeField("description", d)
    \/ \E c \in CategoryInputs \ {""} : changeField("category", c)
    \/ \E i \in 1..4, u \in UrlInputs : changeField(imageFields[i], u)
    \/ handleSubmit
    \/ handleImageUpload
    \/ \E i \in 1..MaxUploadTasks : uploadError(i)
    \/ \E i \in 1..MaxUploadTasks : uploadComplete(i)
    \/ \E i \in 1..MaxUploadTasks : downloadUrlResolved(i)
    \/ \E i \in 1..MaxUploadTasks : downloadUrlRejected(i)

SpecUpload == Init /\ [][UploadSpecNext]_vars

\* the slug pipeline on arbitrary names
SlugSpecInit ==
    GateAuthorized /\ SeedIdle /\ OrdersInit /\ DialogInit /\ UploadInit /\ SlugInit /\ NoStep

SlugSpecNext == DeriveSlug

SpecSlug == SlugSpecInit /\ [][SlugSpecNext]_vars

(***************************************************************************)
(* Properties                                                              *)
(***************************************************************************)

\* C1: the rendered view is a function of the identity state: loading while
\* identity resolution is in flight, the login form with no user, the denial
\* with a user whose email is not the admin address, and the dashboard only
\* for a user whose email is the admin address.
ViewByIdentity ==
    /\ isUserLoading => view = "loading"
    /\ (~isUserLoading /\ ~user.some) => view = "login"
    /\ (~isUserLoading /\ user.some /\ user.val.email # ADMIN_EMAIL) => view = "denied"
    /\ view = "dashboard" => (~isUserLoading /\ user.some /\ user.val.email = ADMIN_EMAIL)

ViewByIdentityWitness ==
    /\ lastOp = "signInResolved"
    /\ user.some /\ user.val.email # ADMIN_EMAIL
    /\ view = "denied"

NoDuplicateIgnoringCase(docs) ==
    \A i, j \in 1..Len(docs) : i # j => toLowerCase(docs[i]) # toLowerCase(docs[j])

\* C2: without a manual add, neither taxonomy collection ever holds two
\* names that are equal ignoring case.
SeedingNeverDuplicates ==
    manualAdd = 0 =>
        /\ NoDuplicateIgnoringCase(categoriesStore)
        /\ NoDuplicateIgnoringCase(stylesStore)

SeedRuns == {"CategoriesLoaded", "StylesLoaded", "CategoryInsertApplied", "StyleInsertApplied"}

ContainsIgnoringCase(snapshot, name) ==
    snapshot.some /\ \E i \in 1..Len(snapshot.val) :
                        toLowerCase(snapshot.val[i]) = toLowerCase(name)

HasEveryDefault(snapshot, defaults) ==
    \A i \in 1..Len(defaults) : ContainsIgnoringCase(snapshot, defaults[i])

\* C7: a run of the seeding effect only inserts default names that the
\* snapshot lacks ignoring case, and issues no write at all when both
\* snapshots hold every default.
SeedingIdempotent ==
    lastOp \in SeedRuns =>
        /\ \A k \in 1..Len(issued) :
              /\ issued[k].op = "add"
              /\ \/ /\ issued[k].coll = "categories"
                    /\ issued[k].data.name \in Range(defaultCategories)
                    /\ ~ContainsIgnoringCase(categories, issued[k].data.name)
                 \/ /\ issued[k].coll = "styles"
                    /\ issued[k].data.name \in Range(defaultStyles)
                    /\ ~ContainsIgnoringCase(styles, issued[k].data.name)
        /\ (HasEveryDefault(categories, defaultCategories)
            /\ HasEveryDefault(styles, defaultStyles)) => issued = <<>>

SeedingIdempotentWitness ==
    /\ lastOp \in SeedRuns
    /\ HasEveryDefault(categories, defaultCategories)
    /\ HasEveryDefault(styles, defaultStyles)
    /\ categories.val # defaultCategories
    /\ issued = <<>>

\* C3 as stated: in create mode every name change leaves the slug equal to
\* the derivation of the name; in edit mode a name change leaves the slug
\* alone and a submit without a manual slug edit writes the stored slug.
SlugFollowsEveryNameChange ==
    [][ /\ (lastOp' = "changeName" /\ ~editingProduct'.some)
            => form'.slug = GeneratedSlug(form'.name)
        /\ (lastOp' = "changeName" /\ editingProduct'.some)
            => form'.slug = form.slug
        /\ (lastOp' = "onSubmit" /\ editingProduct.some /\ ~slugEdited)
            => issued'[1].data.slug = editingProduct.val.slug ]_vars

\* C3 amended: in create mode a change of the name to a non-empty value
\* leaves the slug equal to the derivation of the name, and a change to the
\* empty name leaves the slug as it was; in edit mode a name change leaves
\* the slug alone and a submit without a manual slug edit writes the stored
\* slug.
SlugFollowsNonEmptyName ==
    [][ /\ (lastOp' = "changeName" /\ ~editingProduct'.some /\ form'.name # <<>>)
            => form'.slug = GeneratedSlug(form'.name)
        /\ (lastOp' = "changeName" /\ ~editingProduct'.some /\ form'.name = <<>>)
            => form'.slug = form.slug
        /\ (lastOp' = "changeName" /\ editingProduct'.some)
            => form'.slug = form.slug
        /\ (lastOp' = "onSubmit" /\ editingProduct.some /\ ~slugEdited)
            => issued'[1].data.slug = editingProduct.val.slug ]_vars

SlugFollowsNonEmptyNameWitness ==
    /\ lastOp = "changeName"
    /\ ~editingProduct.some
    /\ form.name = <<"B"," ","&">>
    /\ form.slug = <<"b","-","a","n","d">>
    /\ defaultValues = HydratedValues(Tee)

\* C4: a valid submit issues exactly one write, an update of the edit
\* target stamping updatedAt only or an insert into products stamping
\* createdAt and updatedAt, and closes the dialog and clears the edit target
\* in the same step.
SubmitIssuesOneWrite ==
    [][ /\ (lastOp' = "submitRejected") => ~Valid(form)
        /\ (lastOp' = "onSubmit") =>
              /\ Valid(form)
              /\ Len(issued') = 1
              /\ issued'[1].coll = "products"
              /\ "updatedAt" \in DOMAIN issued'[1].data
              /\ editingProduct.some =>
                    /\ issued'[1].op = "update"
                    /\ issued'[1].id = editingProduct.val.id
                    /\ "createdAt" \notin DOMAIN issued'[1].data
              /\ ~editingProduct.some =>
                    /\ issued'[1].op = "add"
                    /\ "createdAt" \in DOMAIN issued'[1].data
              /\ ~isDialogOpen'
              /\ editingProduct' = Null ]_vars

SubmitIssuesOneWriteWitness ==
    /\ lastOp = "onSubmit"
    /\ issued[1].op = "update"
    /\ issued[1].id = Tote.id
    /\ ~isDialogOpen
    /\ editingProduct = Null

\* C5: the then-callback of getDownloadURL writes the URL to the first
\* empty image field, scanning 1 to 4, and to nothing else; with no empty
\* field the form is unchanged; the URL is exposed as uploadedUrl.
UploadFillsFirstEmptyField ==
    [][ (lastOp' = "downloadUrlResolved") =>
          /\ uploadedUrl' = Some(DownloadUrl)
          /\ LET empty == {i \in 1..4 : form[imageFields[i]] = ""}
             IN IF empty = {}
                THEN form' = form
                ELSE \E i \in empty :
                        /\ \A j \in empty : i <= j
                        /\ form'[imageFields[i]] = DownloadUrl
                        /\ \A f \in DOMAIN form \ {imageFields[i]} : form'[f] = form[f] ]_vars

UploadFillsFirstEmptyFieldWitness ==
    /\ lastOp = "downloadUrlResolved"
    /\ form.imageUrl1 = TypedUrl
    /\ form.imageUrl2 = DownloadUrl
    /\ form.imageUrl3 = ""
    /\ uploadedUrl = Some(DownloadUrl)

\* C6: at most one upload task is in flight, and the file input is disabled
\* for as long as one is.
AtMostOneUploadInFlight ==
    /\ Len(uploadTasks) <= 1
    /\ uploadTasks # <<>> => uploading

AtMostOneUploadInFlightWitness ==
    /\ lastOp = "uploadComplete"
    /\ uploadTasks = <<"resolving">>
    /\ uploading

\* the slug pipeline as one left-to-right scan of the trimmed name
RECURSIVE ReferenceScan(_, _)
ReferenceScan(acc, rest) ==
    IF rest = <<>> THEN acc
    ELSE LET c == toLowerCaseChar(Head(rest))
         IN IF c = "&" THEN ReferenceScan(acc \o <<"a","n","d">>, Tail(rest))
            ELSE IF c \in Whitespace \cup {"-"}
                 THEN ReferenceScan(IF acc # <<>> /\ acc[Len(acc)] = "-"
                                    THEN acc ELSE Append(acc, "-"), Tail(rest))
            ELSE IF c \in Range(LowerCase) \cup Digits
                 THEN ReferenceScan(Append(acc, c), Tail(rest))
            ELSE ReferenceScan(acc, Tail(rest))

ReferenceSlug(name) ==
    LET inner == {i \in 1..Len(name) : name[i] \notin Whitespace}
    IN IF inner = {} THEN <<>>
       ELSE ReferenceScan(<<>>,
                SubSeq(name, CHOOSE i \in inner : \A j \in inner : i <= j,
                             CHOOSE i \in inner : \A j \in inner : i >= j))

\* C8: the derived slug equals the reference pipeline, consists of
\* characters in [a-z0-9-] with no two adjacent hyphens, and the example
\* name yields the example slug.
SlugMatchesReference ==
    lastOp = "DeriveSlug" =>
        /\ generatedSlug = ReferenceSlug(nameValue)
        /\ Range(generatedSlug) \subseteq Range(LowerCase) \cup Digits \cup {"-"}
        /\ \A i \in 1..(Len(generatedSlug) - 1) :
              ~(generatedSlug[i] = "-" /\ generatedSlug[i + 1] = "-")
        /\ nameValue = ExampleName => generatedSlug = ExampleSlug

SlugMatchesReferenceWitness ==
    /\ lastOp = "DeriveSlug"
    /\ nameValue = ExampleName
    /\ generatedSlug = ExampleSlug

\* C9: the written image list is the non-empty image fields of the
\* submitted form in field order, each with alt equal to the submitted name.
ImagesAreFilledFieldsInOrder ==
    [][ (lastOp' = "onSubmit") =>
          LET images == issued'[1].data.images
              filled == {i \in 1..4 : form[imageFields[i]] # ""}
          IN /\ Len(images) = Cardinality(filled)
             /\ \A k \in 1..Len(images) : images[k].alt = form.name
             /\ \E f \in [1..Len(images) -> filled] :
                   /\ \A k \in 1..Len(images) : images[k].url = form[imageFields[f[k]]]
                   /\ \A k, l \in 1..Len(images) : k < l => f[k] < f[l] ]_vars

ImagesAreFilledFieldsInOrderWitness ==
    /\ lastOp = "onSubmit"
    /\ issued[1].data.imageUrl1 = ""
    /\ issued[1].data.imageUrl2 = StoredUrls[2]
    /\ issued[1].data.imageUrl3 = ""
    /\ issued[1].data.imageUrl4 = TypedUrl
    /\ Len(issued[1].data.images) = 2
    /\ issued[1].data.images[1].url = StoredUrls[2]

RECURSIVE SumOver(_, _)
SumOver(S, f) ==
    IF S = {} THEN 0
    ELSE LET x == CHOOSE x \in S : TRUE
         IN f[x] + SumOver(S \ {x}, f)

\* the order lines of a snapshot, by position
LinePositions(os) == {<<i, j>> \in (1..Len(os)) \X (1..MaxLines + 1) : j <= Len(os[i].products)}

TotalQuantity(os, id) ==
    LET lines == {p \in LinePositions(os) : os[p[1]].products[p[2]].id = id}
    IN SumOver(lines, [p \in lines |-> os[p[1]].products[p[2]].quantity])

ExampleOrders ==
    << [products |-> <<[id |-> "a", quantity |-> 2]>>],
       [products |-> <<[id |-> "a", quantity |-> 1], [id |-> "b", quantity |-> 5]>>] >>

\* C10: the tally has exactly the product ids that occur in an order line as
\* keys, each mapped to the sum of the quantities of its lines; an id without
\* a line shows 0; an absent or empty order list gives the empty mapping;
\* the example orders give a: 3, b: 5.
TallyIsSumPerProduct ==
    LET os == IF orders.some THEN orders.val ELSE <<>>
    IN /\ DOMAIN salesCount =
            {os[p[1]].products[p[2]].id : p \in LinePositions(os)}
       /\ \A id \in DOMAIN salesCount : salesCount[id] = TotalQuantity(os, id)
       /\ \A id \in (ProductIds \cup {"c"}) \ DOMAIN salesCount : SalesShown(salesCount, id) = 0
       /\ os = <<>> => salesCount = EmptyCounts
       /\ os = ExampleOrders =>
             /\ DOMAIN salesCount = {"a", "b"}
             /\ salesCount["a"] = 3
             /\ salesCount["b"] = 5

TallyIsSumPerProductWitness ==
    /\ lastOp = "OrderPlaced"
    /\ orders = Some(ExampleOrders)
    /\ salesCount["a"] = 3
    /\ salesCount["b"] = 5

OrdersOnlyGetStatusUpdates ==
    /\ \A i \in DOMAIN issued :
          issued[i].coll = "orders" =>
              /\ lastOp = "handleUpdateOrderStatus"
              /\ issued[i].op = "update"
              /\ issued[i].id \in RenderedOrderIds
              /\ DOMAIN issued[i].data = {"status"}
    /\ lastOp = "handleUpdateOrderStatus" =>
          Len(issued) = 1 /\ issued[1].coll = "orders"
    /\ lastOp \in {"onSubmit", "handleDelete", "handleAddCategory", "handleAddStyle"} =>
          \A i \in DOMAIN issued : issued[i].coll # "orders"

OrdersOnlyGetStatusUpdatesWitness ==
    /\ lastOp = "handleUpdateOrderStatus"
    /\ issued = <<StatusWrite("o1", "pending")>>
    /\ orders = Some(<<OrderRow("o2", "shipped"), OrderRow("o1", "delivered")>>)

\* C13: when an upload fails, the error callback returns the uploader to
\* idle (uploading is false), changes no field of the form, and the uploaded
\* URL, cleared when the upload started, is still null.
UploadFailureLeavesFormUntouched ==
    [][lastOp' = "uploadError" =>
          /\ uploading /\ ~uploading'
          /\ form' = form
          /\ uploadedUrl = Null /\ uploadedUrl' = Null]_vars

UploadFailureLeavesFormUntouchedWitness ==
    /\ lastOp = "uploadError"
    /\ ~uploading
    /\ uploadedUrl = Null
    /\ isDialogOpen
    /\ form.imageUrl1 = TypedUrl
    /\ form.imageUrl2 = ""

\* C14: the access-denied view is terminal: while it is shown no handler of
\* the page can be invoked (the login form is not rendered), and the view
\* stays access-denied across every step that leaves the identity state as
\* it is.
DeniedIsTerminal ==
    [][view = "denied" =>
          /\ lastOp' \notin {"setEmail", "handleLogin"}
          /\ (user' = user /\ isUserLoading' = isUserLoading => view' = "denied")
          /\ (view' # "denied" => lastOp' \in {"AuthStateChanged", "signInResolved"})]_vars

DeniedIsTerminalWitness ==
    /\ view = "denied"
    /\ lastOp = "signInResolved"
    /\ user = Some([email |-> "guest@shop"])
    /\ ADMIN_EMAIL = AdminAddress
    /\ ~isLoggingIn

\* a submit that was blocked: no write, the dialog still open, the edit
\* target and the form as they were
SubmitBlocked ==
    /\ lastOp' = "submitRejected"
    /\ issued' = <<>>
    /\ isDialogOpen'
    /\ editingProduct' = editingProduct
    /\ form' = form

\* C15: a submit with an empty name, slug, description or category, with a
\* price below 0, or with a non-empty image URL that is not a well-formed URL
\* issues no write, leaves the dialog open and the edit target unchanged, and
\* reports the error on the offending field.
InvalidSubmitIsBlocked ==
    [][lastOp' \in {"onSubmit", "submitRejected"} =>
          /\ form.name = <<>> => SubmitBlocked /\ "name" \in errors'
          /\ form.slug = <<>> => SubmitBlocked /\ "slug" \in errors'
          /\ form.description = "" => SubmitBlocked /\ "description" \in errors'
          /\ form.category = "" => SubmitBlocked /\ "category" \in errors'
          /\ form.price < 0 => SubmitBlocked /\ "price" \in errors'
          /\ \A i \in 1..4 :
                form[imageFields[i]] # "" /\ form[imageFields[i]] \notin WellFormedUrls
                    => SubmitBlocked /\ imageFields[i] \in errors']_vars

InvalidSubmitIsBlockedWitness ==
    /\ lastOp = "submitRejected"
    /\ isDialogOpen
    /\ editingProduct = Some(Tee)
    /\ form.name = <<"T">>
    /\ form.price = -1
    /\ form.imageUrl2 = NotAUrl
    /\ errors = {"price", "imageUrl2"}
    /\ issued = <<>>

\* C16: every upload that was started returns the uploader to a retryable
\* state, whatever the storage outcome (transfer error, download URL
\* resolved, download URL resolution failed): once the last callback of the
\* upload has run, uploading is false.
UploadEndsIdle == uploadTasks = <<>> => ~uploading

\* the form still holds what it held when handleImageUpload was called: the
\* same product, or the create form without a reset in between
SameFormSession ==
    /\ editingProduct = uploadTarget
    /\ editingProduct.some \/ ~resetSinceUpload

\* C17: the download URL of an upload is written only into the form session
\* in which the upload started: when the dialog was closed, submitted or
\* reopened for another product or for a new one in the meantime, so that the
\* form holds a different product or a fresh create form, the completion
\* callback leaves every field of the form alone.
UrlStaysInItsFormSession ==
    [][lastOp' = "downloadUrlResolved" /\ ~SameFormSession => form' = form]_vars

====
